---------------------------- MODULE Spec2Model ----------------------------
(***************************************************************************)
(* Model of the bracket engine of ncaa.py: class Tournament (a binary heap *)
(* of TournamentGames), its coordinate/index algebra (lookup, index), its  *)
(* iterator, simulate, empty_bracket, correct and score.                   *)
(*                                                                         *)
(* Squads are positive integers, None is 0, a bare number stored where a   *)
(* squad is expected is kept as a negative code (Num).  A game of heap     *)
(* index i is games[i], i in 0 .. 2^R - 2.                                 *)
(***************************************************************************)
EXTENDS Integers, Sequences, FiniteSets, TLC

(***************************************************************************)
(* Bounds of the exploration.                                              *)
(***************************************************************************)
MaxRounds == 3
MaxIdxRounds == 4
MaxRegionExp == 3
MaxOdd == 2
MaxRuns == 2
MaxScoreRounds == 2
MaxScoreCalls == 2

(***************************************************************************)
(* Values.                                                                 *)
(***************************************************************************)
None == 0

Num(x) == 0 - (x + 1)

NoSlot == 0 - 1

ErrValue == 0 - 1

ErrType == 0 - 2

RECURSIVE Pow2(_)
Pow2(k) == IF k <= 0 THEN 1 ELSE 2 * Pow2(k - 1)

RECURSIVE log2(_)
log2(x) == IF x > 1 THEN 1 + log2(x \div 2) ELSE 0

Min(a, b) == IF a < b THEN a ELSE b

\* list.index(x): zero-based position of the first occurrence, ErrValue
\* (ValueError) when absent
ListIndex(s, x) ==
    IF \E k \in 1..Len(s) : s[k] = x
    THEN (CHOOSE k \in 1..Len(s) : s[k] = x /\ \A j \in 1..(k - 1) : s[j] # x) - 1
    ELSE ErrValue

(***************************************************************************)
(* Labels.  A round label is a string; a region label is a sequence of     *)
(* tokens, so that joining two region names with the delimiter and         *)
(* partitioning the joined label again are computed, not assumed.          *)
(***************************************************************************)
DefaultRounds == <<"finals", "finalfour", "elite8", "sweet16", "2nd", "1st">>

roundpointsMut == <<320, 160, 80, 40, 20, 5>>

roundpoints == <<320, 160, 80, 40, 20, 10>>

RegionPool ==
    <<"North", "East", "South", "West", "R5", "R6", "R7", "R8",
      "R9", "R10", "R11", "R12", "R13", "R14", "R15", "R16">>

RegionList(e) == [k \in 1..Pow2(e) |-> <<RegionPool[k]>>]

\* rounds lists handed to the constructor: the last R default labels, R
\* custom labels without '1st', and R labels whose first one is '1st'
StdRounds(R) == SubSeq(DefaultRounds, 7 - R, 6)

CustomPool == <<"final", "semi", "quarter", "eighth", "opening">>

CustomRounds(R) == SubSeq(CustomPool, 1, R)

OrdinalPool == <<"1st", "2nd", "3rd", "4th", "5th">>

OrdinalRounds(R) == SubSeq(OrdinalPool, 1, R)

\* delim.join(parts)
RECURSIVE Join(_, _)
Join(parts, delim) ==
    IF Len(parts) = 0 THEN <<>>
    ELSE IF Len(parts) = 1 THEN parts[1]
    ELSE parts[1] \o <<delim>> \o Join(Tail(parts), delim)

\* label.partition(delim)[0]
RECURSIVE PartitionHead(_, _)
PartitionHead(label, delim) ==
    IF Len(label) = 0 \/ Head(label) = delim THEN <<>>
    ELSE <<Head(label)>> \o PartitionHead(Tail(label), delim)

Contains(label, delim) == \E k \in 1..Len(label) : label[k] = delim

\* regions[:2] and regions[-2:]
FirstTwo(s) == SubSeq(s, 1, Min(2, Len(s)))

LastTwo(s) == SubSeq(s, IF Len(s) > 2 THEN Len(s) - 1 ELSE 1, Len(s))

(***************************************************************************)
(* TournamentGame and Tournament construction.                             *)
(***************************************************************************)
TournamentGame ==
    [opponents |-> <<>>, winner |-> None, loser |-> None, accurate |-> "None"]

\* dict(zip(self.rounds, self.roundpoints)): zip stops at the shorter list
ZipMap(keys, vals) ==
    [l \in {keys[k] : k \in 1..Min(Len(keys), Len(vals))} |->
        vals[ListIndex(keys, l) + 1]]

\* self.games = [TournamentGame() for i in range(2**len(rounds))]: one game
\* too many
TournamentMut(rounds, regions, delim) ==
    [rounds    |-> rounds,
     regions   |-> regions,
     delim     |-> delim,
     games     |-> [i \in 0..(Pow2(Len(rounds)) - 1) |-> TournamentGame],
     pointsmap |-> ZipMap(rounds, roundpoints),
     points    |-> NoSlot]

Tournament(rounds, regions, delim) ==
    [rounds    |-> rounds,
     regions   |-> regions,
     delim     |-> delim,
     games     |-> [i \in 0..(Pow2(Len(rounds)) - 2) |-> TournamentGame],
     pointsmap |-> ZipMap(rounds, roundpoints),
     points    |-> NoSlot]

NoTournament ==
    [rounds |-> <<>>, regions |-> <<>>, delim |-> "", games |-> <<>>,
     pointsmap |-> <<>>, points |-> NoSlot]

len(T) == Cardinality(DOMAIN T.games)

(***************************************************************************)
(* lookup and index.  A coordinate is [round, region, n]; region <<>> and  *)
(* n = NoSlot stand for None.                                              *)
(***************************************************************************)
lookup(T, n0) ==
    LET n        == n0 + 1
        round_id == log2(n)
        k        == n - Pow2(round_id)
        gsize    == Pow2(round_id) \div Len(T.regions)
    IN  IF gsize = 0
        THEN IF round_id = 0
             THEN [round |-> T.rounds[round_id + 1], region |-> <<>>, n |-> NoSlot]
             ELSE [round  |-> T.rounds[round_id + 1],
                   region |-> IF n <= 2 THEN Join(FirstTwo(T.regions), T.delim)
                                        ELSE Join(LastTwo(T.regions), T.delim),
                   n      |-> NoSlot]
        ELSE [round  |-> T.rounds[round_id + 1],
              region |-> T.regions[(k \div gsize) + 1],
              n      |-> k % gsize]

\* index(round_, region, n) with round_ a label and region a label or None
\* (the empty label); region None and the default region=0 both give 0
index(T, round_, region, n) ==
    LET reg == IF region = <<>> THEN 0
               ELSE ListIndex(T.regions,
                              IF Contains(region, T.delim)
                              THEN PartitionHead(region, T.delim) ELSE region)
        rnd == ListIndex(T.rounds, round_)
        rowinitid == Pow2(rnd) - 1
        gsize == Pow2(rnd) \div 4
    IN  IF reg = ErrValue \/ rnd = ErrValue THEN ErrValue
        ELSE IF gsize = 0
             THEN IF rnd = 0 THEN 0 ELSE (reg \div 2) + 1
             ELSE IF n = NoSlot THEN ErrType
                  ELSE rowinitid + (reg * gsize) + n

(***************************************************************************)
(* The real tournament as the database holds it: 2^R squads seeded into    *)
(* the first round, the `played` highest-index games played.               *)
(***************************************************************************)
FirstRound(R) == Pow2(R - 1) - 1

RECURSIVE RealOpponents(_, _)
RECURSIVE RealWinner(_, _)
RealOpponents(R, i) ==
    IF i >= FirstRound(R)
    THEN <<2 * (i - FirstRound(R)) + 1, 2 * (i - FirstRound(R)) + 2>>
    ELSE <<RealWinner(R, 2 * i + 1), RealWinner(R, 2 * i + 2)>>
RealWinner(R, i) == RealOpponents(R, i)[1 + (i % 2)]

RealLoser(R, i) == RealOpponents(R, i)[2 - (i % 2)]

Seedings == {"full", "first", "last", "none"}

\* seeding "first" / "last": the lowest / highest first-round game still
\* waits for its second opponent; "none": nothing is seeded yet
RealGame(R, i, seeding, played) ==
    LET N == Pow2(R) - 1
        isPlayed(j) == seeding = "full" /\ j >= N - played
        full == RealOpponents(R, i)
    IN  [opponents |->
            IF i >= FirstRound(R)
            THEN IF seeding = "none" THEN <<>>
                 ELSE IF (seeding = "first" /\ i = FirstRound(R))
                         \/ (seeding = "last" /\ i = N - 1)
                      THEN <<full[1]>>
                      ELSE full
            ELSE IF isPlayed(2 * i + 1) THEN full
                 ELSE IF isPlayed(2 * i + 2) THEN <<full[2]>>
                 ELSE <<>>,
         winner   |-> IF isPlayed(i) THEN RealWinner(R, i) ELSE None,
         loser    |-> IF isPlayed(i) THEN RealLoser(R, i) ELSE None,
         accurate |-> "None"]

RealTournament(rounds, regions, delim, seeding, played) ==
    LET T == Tournament(rounds, regions, delim)
    IN  [T EXCEPT !.games =
            [i \in DOMAIN T.games |-> RealGame(Len(rounds), i, seeding, played)]]

(***************************************************************************)
(* empty_bracket.                                                          *)
(***************************************************************************)
empty_bracket(T) ==
    LET newtourny == Tournament(T.rounds, T.regions, "/")
        fr_start  == index(T, "1st", <<>>, 0)
    IN  IF fr_start < 0
        THEN [err |-> "ValueError", trn |-> NoTournament]
        ELSE [err |-> "",
              trn |-> [newtourny EXCEPT !.games =
                         [i \in DOMAIN newtourny.games |->
                            IF i >= fr_start
                            THEN [newtourny.games[i] EXCEPT
                                     !.opponents = T.games[i].opponents]
                            ELSE newtourny.games[i]]]]

(***************************************************************************)
(* What a decision function may hand back for a game, as a tagged value    *)
(* [t, a, b]:                                                              *)
(*   int      a = the integer                                              *)
(*   squad    a = the Squad                                                *)
(*   pair     a, b = a tuple or list of two Squads                         *)
(*   list     a, b = a list of numbers (b = NoSlot: the list has 1 item)   *)
(*   ndarray  a = the first element of the array                           *)
(*   game     a, b = winner, loser of a Game object                        *)
(*   other    any type simulate does not know                              *)
(*   raise    the decision function raises                                 *)
(***************************************************************************)
Res(tag, a1, b1) == [t |-> tag, a |-> a1, b |-> b1]

PlainResults == {Res("int", 0, 0)}

OddResults(o, outsider) ==
    {Res("int", 1, 0), Res("int", 2, 0),
     Res("squad", o[1], 0), Res("squad", o[2], 0), Res("squad", outsider, 0),
     Res("pair", o[1], o[2]), Res("pair", o[2], o[1]), Res("pair", o[1], o[1]),
     Res("pair", outsider, o[1]),
     Res("list", 0, NoSlot), Res("list", 1, 0),
     Res("ndarray", 0, 0), Res("ndarray", 1, 0),
     Res("game", o[1], o[2]), Res("game", o[1], None),
     Res("other", 0, 0), Res("raise", 0, 0)}

\* The branches of simulate's type dispatch on r = decide(tgame).  Each
\* gives the game as left behind and the error raised, if any (with the
\* place that raised it).
Done(g2) == [g |-> g2, err |-> "", site |-> ""]

Raise(g2, e, s) == [g |-> g2, err |-> e, site |-> s]

\* type(r) is Game: tgame = r rebinds the loop variable only, and class
\* Game has no next(), so tgame.next() raises AttributeError
DecidedGame(g, r) == Raise(g, "AttributeError", "next")

\* type(r) is tuple or list: r[0], r[1] are stored as they are; a list of
\* numbers lands here too, r[1] of a one-item list raises IndexError
DecidedPair(g, r) ==
    IF r.t = "list"
    THEN IF r.b = NoSlot
         THEN Raise([g EXCEPT !.winner = Num(r.a)], "IndexError", "assign")
         ELSE Done([g EXCEPT !.winner = Num(r.a), !.loser = Num(r.b)])
    ELSE Done([g EXCEPT !.winner = r.a, !.loser = r.b])

DecidedSquadMut(g, r) ==
    IF ListIndex(g.opponents, r.a) = ErrValue
    THEN Raise([g EXCEPT !.winner = r.a], "ValueError", "assign")
    ELSE Done([g EXCEPT !.winner = r.a])

\* type(r) is Squad
DecidedSquad(g, r) ==
    LET pos == ListIndex(g.opponents, r.a)
    IN  IF pos = ErrValue
        THEN Raise([g EXCEPT !.winner = r.a], "ValueError", "assign")
        ELSE Done([g EXCEPT !.winner = r.a,
                            !.loser = g.opponents[((pos + 1) % 2) + 1]])

DecidedIntMut(g, i) ==
    IF i >= Len(g.opponents)
    THEN Raise(g, "IndexError", "assign")
    ELSE Done([g EXCEPT !.winner = g.opponents[i + 1],
                        !.loser = g.opponents[i + 1]])

\* type(r) is int, and type(r) is np.ndarray with i = int(r[0])
DecidedInt(g, i) ==
    IF i >= Len(g.opponents)
    THEN Raise(g, "IndexError", "assign")
    ELSE Done([g EXCEPT !.winner = g.opponents[i + 1],
                        !.loser = g.opponents[((i + 1) % 2) + 1]])

DecidedElseMut(g, r) ==
    Raise([g EXCEPT !.winner = Num(0)], "NotImplementedError", "type")

\* any other type
DecidedElse(g, r) == Raise(g, "NotImplementedError", "type")

Decided(g, r) ==
    CASE r.t = "raise" -> Raise(g, "DeciderError", "decide")
      [] r.t = "game"  -> DecidedGame(g, r)
      [] r.t \in {"pair", "list"} -> DecidedPair(g, r)
      [] r.t = "squad" -> DecidedSquad(g, r)
      [] r.t \in {"int", "ndarray"} -> DecidedInt(g, r.a)
      [] OTHER -> DecidedElse(g, r)

OpponentsOkMut(g) == Len(g.opponents) >= 2

\* the check that opens the loop body: len(tgame.opponents) != 2 raises
OpponentsOk(g) == Len(g.opponents) = 2

nextMut(i) ==
    LET next_idx == (i \div 2) - 1
    IN  IF next_idx < 0 THEN NoSlot ELSE next_idx

\* TournamentGame.next: the index of the next round's game, NoSlot for None
next(i) ==
    LET next_idx == ((i + 1) \div 2) - 1
    IN  IF next_idx < 0 THEN NoSlot ELSE next_idx

(***************************************************************************)
(* correct and score.  The pointsmap argument of score is                  *)
(*   [k |-> "none"]                    no argument                         *)
(*   [k |-> "list", list |-> ...]      points per round, championship first*)
(*   [k |-> "dict", dict |-> ..., order |-> ...]  a mapping, with the      *)
(*                                     order in which items() yields it    *)
(*   [k |-> "other"]                   anything else                       *)
(***************************************************************************)
PmArg(kind, l, d, o) == [k |-> kind, list |-> l, dict |-> d, order |-> o]

DictSet(d, key, val) ==
    [x \in (DOMAIN d) \cup {key} |-> IF x = key THEN val ELSE d[x]]

correctMut(T, real) ==
    [T EXCEPT !.games =
        [i \in DOMAIN T.games |->
            [T.games[i] EXCEPT !.accurate =
                IF real.games[i].winner = T.games[i].winner
                THEN "True" ELSE "False"]]]

correct(T, real) ==
    [T EXCEPT !.games =
        [i \in DOMAIN T.games |->
            [T.games[i] EXCEPT !.accurate =
                IF real.games[i].winner = None THEN "None"
                ELSE IF real.games[i].winner = T.games[i].winner
                     THEN "True" ELSE "False"]]]

\* the loop over pointsmap.items() of a mapping argument: the keys are
\* taken in the given order, a key that is no round label raises NameError
\* and leaves the entries stored before it in place
RECURSIVE StoreItems(_, _, _)
StoreItems(T, d, order) ==
    IF Len(order) = 0 THEN [trn |-> T, err |-> ""]
    ELSE IF ListIndex(T.rounds, Head(order)) = ErrValue
         THEN [trn |-> T, err |-> "NameError"]
         ELSE StoreItems([T EXCEPT !.pointsmap = DictSet(@, Head(order), d[Head(order)])],
                         d, Tail(order))

\* a list argument that is paired with the round labels but not kept on
\* the bracket
SetPointsmapMut(T, arg) ==
    CASE arg.k = "dict" -> StoreItems(T, arg.dict, arg.order)
      [] arg.k \in {"none", "list"} -> [trn |-> T, err |-> ""]
      [] OTHER          -> [trn |-> T, err |-> "ValueError"]

\* the first part of score: the pointsmap argument is taken over
SetPointsmap(T, arg) ==
    CASE arg.k = "list" -> [trn |-> [T EXCEPT !.pointsmap = ZipMap(T.rounds, arg.list)],
                            err |-> ""]
      [] arg.k = "dict" -> StoreItems(T, arg.dict, arg.order)
      [] arg.k = "none" -> [trn |-> T, err |-> ""]
      [] OTHER          -> [trn |-> T, err |-> "ValueError"]

TallyGameMut(T, i) == T.games[i].accurate # "False"

\* `if game.accurate:` of the scoring loop
TallyGame(T, i) == T.games[i].accurate = "True"

\* the points the scoring loop adds over the games lo .. hi (the range is
\* halved rather than walked, which leaves the sum as it is)
RECURSIVE TallyRange(_, _, _)
TallyRange(T, lo, hi) ==
    IF lo > hi THEN 0
    ELSE IF lo = hi
         THEN IF TallyGame(T, lo) THEN T.pointsmap[T.rounds[log2(lo + 1) + 1]] ELSE 0
         ELSE LET mid == (lo + hi) \div 2
              IN  TallyRange(T, lo, mid) + TallyRange(T, mid + 1, hi)

\* the scoring loop from game i on, self.points holding acc so far; a round
\* label the pointsmap lacks raises KeyError at the first accurate game of
\* such a round and leaves the partial sum
Tally(T, i, acc) ==
    LET lacking == {j \in i..(len(T) - 1) :
                      TallyGame(T, j)
                      /\ T.rounds[log2(j + 1) + 1] \notin DOMAIN T.pointsmap}
        stop == IF lacking = {} THEN len(T)
                ELSE CHOOSE j \in lacking : \A k \in lacking : j <= k
    IN  [points |-> acc + TallyRange(T, i, stop - 1),
         err |-> IF lacking = {} THEN "" ELSE "KeyError"]

scoreMut(T, realtourny, arg) ==
    LET c == correct(T, realtourny)
        p == SetPointsmap(c, arg)
        s == Tally(p.trn, 0, 0)
    IN  IF p.err # ""
        THEN [trn |-> p.trn, err |-> p.err, ret |-> NoSlot]
        ELSE [trn |-> [p.trn EXCEPT !.points = s.points], err |-> s.err,
              ret |-> IF s.err = "" THEN s.points ELSE NoSlot]

scoreAccMut(T, realtourny, arg) ==
    LET p == SetPointsmap(T, arg)
        c == correct(p.trn, realtourny)
        s == Tally(c, 0, IF c.points = NoSlot THEN 0 ELSE c.points)
    IN  IF p.err # ""
        THEN [trn |-> p.trn, err |-> p.err, ret |-> NoSlot]
        ELSE [trn |-> [c EXCEPT !.points = s.points], err |-> s.err,
              ret |-> IF s.err = "" THEN s.points ELSE NoSlot]

score(T, realtourny, arg) ==
    LET p == SetPointsmap(T, arg)
        c == correct(p.trn, realtourny)
        s == Tally(c, 0, 0)
    IN  IF p.err # ""
        THEN [trn |-> p.trn, err |-> p.err, ret |-> NoSlot]
        ELSE [trn |-> [c EXCEPT !.points = s.points], err |-> s.err,
              ret |-> IF s.err = "" THEN s.points ELSE NoSlot]

\* the pointsmap arguments tried on a bracket with the given round labels
Orders(d) ==
    {o \in [1..Cardinality(DOMAIN d) -> DOMAIN d] :
        \A x \in DOMAIN d : \E k \in DOMAIN o : o[k] = x}

DictArgs(d) == {PmArg("dict", <<>>, d, o) : o \in Orders(d)}

ScoreArgs(rounds) ==
    LET R == Len(rounds)
    IN  {PmArg("none", <<>>, <<>>, <<>>), PmArg("other", <<>>, <<>>, <<>>),
         PmArg("list", [k \in 1..R |-> 2 * (R - k) + 3], <<>>, <<>>),
         PmArg("list", [k \in 1..(R - 1) |-> 6], <<>>, <<>>)}
        \cup DictArgs([l \in {rounds[R]} |-> 100])
        \cup DictArgs([l \in {rounds[1]} |-> 50])
        \cup DictArgs([l \in {rounds[1], "bogus"} |-> IF l = "bogus" THEN 9 ELSE 50])

(***************************************************************************)
(* State.                                                                  *)
(*   t   the real tournament (the source of empty_bracket)                 *)
(*   b   the working bracket, NoTournament until empty_bracket returns     *)
(*   sim the simulate call on b: pc, the iterator's index, the error       *)
(*       raised (type, arguments, where), the games decide was called on,  *)
(*       the number of simulate calls and of non-default decide results,   *)
(*       whether decide returned only the integers 0 and 1 in this call    *)
(*   out the last empty_bracket / correct / score call: its name, error,   *)
(*       return value and pointsmap argument, and the number of correct    *)
(*       and score calls so far                                            *)
(*       and score calls so far, whether this score call repeats the call  *)
(*       before it (score again, with the same pointsmap argument)         *)
(*   ix  the scratch of a lookup / index round trip                        *)
(*   dec the value decide returned in the last pass of simulate's loop     *)
(*   ex  the last export call on b: format, error, the output's nodes      *)
(*   w   the workers of a parallel search, each with a bracket of its own  *)
(***************************************************************************)
VARIABLES t, b, sim, out, ix, dec, ex, w

vars == <<t, b, sim, out, ix, dec, ex, w>>

SimIdle ==
    [pc |-> "idle", idx |-> 0, err |-> "", args |-> <<>>, site |-> "",
     calls |-> <<>>, run |-> 0, odd |-> 0, ints |-> TRUE]

OutIdle ==
    [op |-> "", err |-> "", ret |-> NoSlot, n |-> 0,
     arg |-> PmArg("none", <<>>, <<>>, <<>>), again |-> FALSE]

IxIdle ==
    [pc |-> "idle", n |-> 0,
     coord |-> [round |-> "", region |-> <<>>, n |-> NoSlot], back |-> 0]

DecIdle == Res("", 0, 0)

ExIdle == [format |-> "", err |-> "", nodes |-> <<>>, n |-> 0]

WIdle == <<>>

(***************************************************************************)
(* Actions.                                                                *)
(***************************************************************************)
\* b = t.empty_bracket()
EmptyBracket ==
    /\ sim.pc = "idle"
    /\ b = NoTournament
    /\ out.op = ""
    /\ LET e == empty_bracket(t)
       IN  /\ b' = e.trn
           /\ out' = [out EXCEPT !.op = "empty_bracket", !.err = e.err]
    /\ UNCHANGED <<t, sim, ix, dec, ex, w>>

\* an iterator that starts one game below the highest index
SimStartMut ==
    /\ b # NoTournament
    /\ sim.pc \in {"idle", "done"}
    /\ sim.run < MaxRuns
    /\ sim' = [sim EXCEPT !.pc = "run", !.idx = len(b) - 1, !.calls = <<>>,
                          !.run = @ + 1, !.ints = TRUE]
    /\ UNCHANGED <<t, b, out, ix, dec, ex, w>>

\* b.simulate(decide) is called: Tournament.__iter__ builds the iterator
SimStart ==
    /\ b # NoTournament
    /\ sim.pc \in {"idle", "done"}
    /\ sim.run < MaxRuns
    /\ sim' = [sim EXCEPT !.pc = "run", !.idx = len(b), !.calls = <<>>,
                          !.run = @ + 1, !.ints = TRUE]
    /\ UNCHANGED <<t, b, out, ix, dec, ex, w>>

\* the winner put in front of the next round's opponents
SimApplyMut(i, g, r, isPlain) ==
    LET d == Decided(g, r)
        odd == IF isPlain THEN sim.odd ELSE sim.odd + 1
        ints == sim.ints /\ r.t = "int" /\ r.a \in {0, 1}
        nextroundgame == next(i)
    IN  IF d.err # ""
        THEN /\ sim' = [sim EXCEPT !.pc = "error", !.idx = i,
                           !.err = d.err, !.args = <<>>,
                           !.site = d.site, !.odd = odd,
                           !.ints = ints,
                           !.calls = Append(@, i)]
             /\ b' = [b EXCEPT !.games[i] = d.g]
        ELSE /\ sim' = [sim EXCEPT !.idx = i, !.odd = odd,
                           !.ints = ints,
                           !.calls = Append(@, i)]
             /\ b' = [b EXCEPT !.games =
                       [j \in DOMAIN b.games |->
                          IF j = i THEN d.g
                          ELSE IF j = nextroundgame
                          THEN [b.games[j] EXCEPT !.opponents =
                                   <<d.g.winner>> \o @]
                          ELSE b.games[j]]]

\* what simulate does with r = decide(tgame) at game i: the assignment of
\* winner and loser, the append to the next round's game
SimApply(i, g, r, isPlain) ==
    LET d == Decided(g, r)
        odd == IF isPlain THEN sim.odd ELSE sim.odd + 1
        ints == sim.ints /\ r.t = "int" /\ r.a \in {0, 1}
        nextroundgame == next(i)
    IN  IF d.err # ""
        THEN /\ sim' = [sim EXCEPT !.pc = "error", !.idx = i,
                           !.err = d.err, !.args = <<>>,
                           !.site = d.site, !.odd = odd,
                           !.ints = ints,
                           !.calls = Append(@, i)]
             /\ b' = [b EXCEPT !.games[i] = d.g]
        ELSE /\ sim' = [sim EXCEPT !.idx = i, !.odd = odd,
                           !.ints = ints,
                           !.calls = Append(@, i)]
             /\ b' = [b EXCEPT !.games =
                       [j \in DOMAIN b.games |->
                          IF j = i THEN d.g
                          ELSE IF j = nextroundgame
                          THEN [b.games[j] EXCEPT !.opponents =
                                   Append(@, d.g.winner)]
                          ELSE b.games[j]]]

\* one pass of simulate's loop: the iterator's next(), the opponents
\* check, decide, the assignment of winner and loser, the append to the
\* next round's game; dec keeps what decide returned when rec is set
SimPass(plain, odds, rec) ==
    /\ sim.pc = "run"
    /\ sim.idx > 0
    /\ LET i == sim.idx - 1
           g == b.games[i]
       IN  IF ~OpponentsOk(g)
           THEN /\ sim' = [sim EXCEPT !.pc = "error", !.idx = i,
                                      !.err = "IndexError", !.args = <<>>,
                                      !.site = "opponents"]
                /\ b' = b
                /\ dec' = IF rec THEN DecIdle ELSE dec
           ELSE \E r \in plain \cup
                         (IF odds /\ sim.odd < MaxOdd
                          THEN OddResults(g.opponents, Pow2(Len(b.rounds)) + 1)
                          ELSE {}) :
                  /\ SimApply(i, g, r, r \in plain)
                  /\ dec' = IF rec THEN r ELSE dec
    /\ UNCHANGED <<t, out, ix, ex, w>>

SimStepOn(plain, odds) == SimPass(plain, odds, FALSE)

\* decide returns index 0, or at most MaxOdd times anything else
SimStep == SimStepOn(PlainResults, TRUE)

\* decide returns index 0 or index 1
SimStepIndex == SimStepOn({Res("int", 0, 0), Res("int", 1, 0)}, FALSE)

\* b.correct(t)
Correct ==
    /\ b # NoTournament
    /\ sim.pc # "run"
    /\ out.n < MaxScoreCalls
    /\ b' = correct(b, t)
    /\ out' = [out EXCEPT !.op = "correct", !.err = "", !.ret = NoSlot,
                          !.n = @ + 1, !.arg = PmArg("none", <<>>, <<>>, <<>>),
                          !.again = FALSE]
    /\ UNCHANGED <<t, sim, ix, dec, ex, w>>

\* b.score(t, pointsmap)
Score ==
    /\ b # NoTournament
    /\ sim.pc # "run"
    /\ out.n < MaxScoreCalls
    /\ \E arg \in ScoreArgs(b.rounds) :
          LET s == score(b, t, arg)
          IN  /\ b' = s.trn
              /\ out' = [out EXCEPT !.op = "score", !.err = s.err, !.ret = s.ret,
                                    !.n = @ + 1, !.arg = arg,
                                    !.again = (out.op = "score" /\ out.arg = arg)]
    /\ UNCHANGED <<t, sim, ix, dec, ex, w>>

\* the iterator raises StopIteration: simulate returns
SimReturn ==
    /\ sim.pc = "run"
    /\ sim.idx = 0
    /\ sim' = [sim EXCEPT !.pc = "done"]
    /\ UNCHANGED <<t, b, out, ix, dec, ex, w>>

DoLookup ==
    /\ ix.pc = "idle"
    /\ ix' = [ix EXCEPT !.pc = "looked", !.coord = lookup(t, ix.n)]
    /\ UNCHANGED <<t, b, sim, out, dec, ex, w>>

DoIndex ==
    /\ ix.pc = "looked"
    /\ ix' = [ix EXCEPT !.pc = "indexed",
                        !.back = index(t, ix.coord.round, ix.coord.region, ix.coord.n)]
    /\ UNCHANGED <<t, b, sim, out, dec, ex, w>>

(***************************************************************************)
(* Specification of the index algebra: a bracket of R rounds over 2^e      *)
(* regions, an index n, lookup(n), then index of the coordinate.           *)
(***************************************************************************)
IdxInit ==
    /\ \E R \in 1..MaxIdxRounds, e \in 0..MaxRegionExp :
          t = Tournament(StdRounds(R), RegionList(e), "/")
    /\ b = NoTournament
    /\ sim = SimIdle
    /\ out = OutIdle
    /\ dec = DecIdle
    /\ ex = ExIdle
    /\ w = WIdle
    /\ \E n \in 0..(Pow2(MaxIdxRounds) - 2) : ix = [IxIdle EXCEPT !.n = n]
    /\ ix.n < len(t)

IdxNext == DoLookup \/ DoIndex

SpecIdx == IdxInit /\ [][IdxNext]_vars

(***************************************************************************)
(* Specification of simulate: a real tournament of R rounds, a bracket     *)
(* cloned from it, one or two simulate calls on the clone.                 *)
(***************************************************************************)
SimInit ==
    /\ \E R \in 1..MaxRounds, seeding \in Seedings :
          t = RealTournament(StdRounds(R), RegionList(2), "/", seeding,
                             IF seeding = "full" THEN Pow2(R) - 1 ELSE 0)
    /\ b = NoTournament
    /\ sim = SimIdle
    /\ out = OutIdle
    /\ dec = DecIdle
    /\ ex = ExIdle
    /\ w = WIdle
    /\ ix = IxIdle

SimNext == EmptyBracket \/ SimStart \/ SimStep \/ SimReturn

SpecSim == SimInit /\ [][SimNext]_vars

(***************************************************************************)
(* Specification of empty_bracket: a real tournament with any of the round *)
(* label lists, 2 or 4 regions, either delimiter, in any state of seeding  *)
(* and play, cloned once.                                                  *)
(***************************************************************************)
RoundLists(R) == {StdRounds(R), CustomRounds(R), OrdinalRounds(R)}

CloneInit ==
    /\ \E R \in 1..MaxRounds, seeding \in Seedings, e \in 1..2,
          delim \in {"/", "-"} :
          \E rounds \in RoundLists(R), played \in 0..(Pow2(R) - 1) :
             /\ seeding # "full" => played = 0
             /\ t = RealTournament(rounds, RegionList(e), delim, seeding, played)
    /\ b = NoTournament
    /\ sim = SimIdle
    /\ out = OutIdle
    /\ dec = DecIdle
    /\ ex = ExIdle
    /\ w = WIdle
    /\ ix = IxIdle

CloneNext == EmptyBracket

SpecClone == CloneInit /\ [][CloneNext]_vars

(***************************************************************************)
(* Specification of correct and score: a real tournament of R rounds with  *)
(* its `played` highest games played, a bracket cloned from it, corrected  *)
(* and scored either as cloned or after one simulate call with an index    *)
(* decider.                                                                *)
(***************************************************************************)
ScoreInit ==
    /\ \E R \in 1..MaxScoreRounds, played \in 0..(Pow2(MaxScoreRounds) - 1) :
          /\ played <= Pow2(R) - 1
          /\ t = RealTournament(StdRounds(R), RegionList(2), "/", "full", played)
    /\ b = NoTournament
    /\ sim = SimIdle
    /\ out = OutIdle
    /\ dec = DecIdle
    /\ ex = ExIdle
    /\ w = WIdle
    /\ ix = IxIdle

\* the one simulate call of the usual flow: empty_bracket, simulate, score
SimOnce == SimStart /\ sim.run = 0 /\ out.n = 0

ScoreNext ==
    EmptyBracket \/ SimOnce \/ SimStepIndex \/ SimReturn \/ Correct \/ Score

SpecScore == ScoreInit /\ [][ScoreNext]_vars

(***************************************************************************)
(* Properties.                                                             *)
(***************************************************************************)
Rounds(T) == Len(T.rounds)

FirstRoundGames(T) == {i \in DOMAIN T.games : i >= FirstRound(Rounds(T))}

FullySeeded(T) == \A i \in FirstRoundGames(T) : Len(T.games[i].opponents) = 2

\* the sequence hi, hi - 1, ..., lo
Descending(hi, lo) == [k \in 1..(hi - lo + 1) |-> hi + 1 - k]

\* C1: whenever simulate returns without raising, whatever shapes decide
\* returned, every game of the bracket has a winner and a loser and the
\* root game holds exactly 2 opponents.
C1_SimulateDecidesAll ==
    sim.pc = "done" =>
        /\ \A i \in DOMAIN b.games :
              b.games[i].winner # None /\ b.games[i].loser # None
        /\ Len(b.games[0].opponents) = 2

C1_Witness ==
    /\ sim.pc = "done"
    /\ len(b) = 7
    /\ ~sim.ints
    /\ \E i \in DOMAIN b.games : b.games[i].winner = b.games[i].loser

\* C2: for every bracket (any R >= 1, any power-of-two number of regions)
\* and every index n, index applied to lookup(n) gives n back.
C2_RoundTrip == ix.pc = "indexed" => ix.back = ix.n

C7_ErrorNamesGame ==
    /\ (sim.pc = "error" /\ sim.site = "opponents") =>
          (sim.err = "IndexError" /\ \E k \in 1..Len(sim.args) : sim.args[k] = sim.idx)
    /\ \A k \in 1..Len(sim.calls) : Len(b.games[sim.calls[k]].opponents) = 2

\* C8: when decide raises or returns a value of an unsupported type at game
\* i, the step leaves the whole bracket as it was (game i undecided on a
\* first simulate, its parent's opponents not extended, the winners above
\* i kept), decide has been called on no game below i, and nothing runs
\* after the error.
C8_DeciderErrorPropagates ==
    [][ /\ (sim.pc = "run" /\ sim'.pc = "error"
            /\ sim'.err \in {"DeciderError", "NotImplementedError"}) =>
              /\ b' = b
              /\ sim'.calls = Append(sim.calls, sim'.idx)
              /\ \A k \in 1..Len(sim'.calls) : sim'.calls[k] >= sim'.idx
              /\ sim.run = 1 =>
                    /\ b'.games[sim'.idx].winner = None
                    /\ b'.games[sim'.idx].loser = None
                    /\ \A j \in DOMAIN b.games :
                          j > sim'.idx => b'.games[j].winner # None
        /\ sim.pc = "error" => (sim' = sim /\ b' = b) ]_vars

C8_Witness ==
    /\ sim.pc = "error"
    /\ sim.err = "NotImplementedError"
    /\ sim.run = 1
    /\ sim.idx = 2
    /\ len(b) = 7
    /\ b.games[2].winner = None
    /\ Len(b.games[0].opponents) = 0
    /\ b.games[3].winner # None

\* the second simulate call on a fully decided bracket has ended, by
\* returning or by the opponents check
SecondRunEnded ==
    /\ sim.run = 2
    /\ \/ sim.pc = "done"
       \/ sim.pc = "error" /\ sim.site = "opponents"

\* C9 as stated: the second simulate raises the opponents-count failure,
\* and raises it on the root game.
C9_FailsOnRoot ==
    (sim.run = 2 /\ sim.pc \in {"done", "error"}
     /\ sim.site \in {"", "opponents"}) =>
        (sim.pc = "error" /\ sim.site = "opponents" /\ sim.idx = 0)

\* C9 as amended: with R >= 2 the second simulate raises the opponents-count
\* failure on game 2^(R-1) - 2, the first game visited below the first
\* round, after decide ran again on every first-round game; that game is
\* the root only when R = 2.  With R = 1 the second simulate returns.
C9_FailsBelowFirstRound ==
    /\ SecondRunEnded =>
          IF Rounds(b) = 1
          THEN sim.pc = "done"
          ELSE /\ sim.pc = "error"
               /\ sim.err = "IndexError"
               /\ sim.idx = Pow2(Rounds(b) - 1) - 2
               /\ Len(sim.calls) = Pow2(Rounds(b) - 1)
               /\ Len(b.games[sim.idx].opponents) = 4
    /\ (sim.run = 2 /\ sim.pc = "run" /\ Rounds(b) >= 2) =>
          sim.idx >= Pow2(Rounds(b) - 1) - 1

C9_Witness ==
    /\ SecondRunEnded
    /\ len(b) = 7
    /\ sim.pc = "error"
    /\ sim.idx = 2

\* the flag correct(real) is to leave on game i
ExpectedFlag(i) ==
    IF t.games[i].winner = None THEN "None"
    ELSE IF t.games[i].winner = b.games[i].winner THEN "True" ELSE "False"

AccurateGames == {i \in DOMAIN b.games : ExpectedFlag(i) = "True"}

RoundLabel(T, i) == T.rounds[log2(i + 1) + 1]

RECURSIVE SumPoints(_, _)
SumPoints(T, S) ==
    IF S = {} THEN 0
    ELSE LET i == CHOOSE x \in S : TRUE
         IN  (IF RoundLabel(T, i) \in DOMAIN T.pointsmap
              THEN T.pointsmap[RoundLabel(T, i)] ELSE 0)
             + SumPoints(T, S \ {i})

\* C4: score returns (and stores) the sum, over exactly the games whose
\* winner is the real, known winner, of the points of the game's round;
\* games whose real winner is unset and games picked wrongly add nothing
\* and raise nothing: the only error of the scoring loop is a round that
\* the pointsmap lacks for a correctly picked game.
C4_ScoreSumsAccurate ==
    (out.op = "score" /\ out.err \notin {"NameError", "ValueError"}) =>
        /\ \A i \in DOMAIN b.games :
              (b.games[i].accurate = "True") <=> (i \in AccurateGames)
        /\ out.err = "" =>
              (out.ret = SumPoints(b, AccurateGames) /\ b.points = out.ret)
        /\ out.err # "" =>
              /\ out.err = "KeyError"
              /\ \E i \in AccurateGames : RoundLabel(b, i) \notin DOMAIN b.pointsmap
        /\ out.arg.k = "none" /\ (\A k \in 1..Rounds(b) : b.rounds[k] \in DOMAIN b.pointsmap)
              => out.err = ""

C4_Witness ==
    /\ out.op = "score" /\ out.err = "" /\ out.arg.k = "none"
    /\ out.ret > 0
    /\ \E i \in DOMAIN b.games : b.games[i].accurate = "None"
    /\ \E i \in DOMAIN b.games : b.games[i].accurate = "False"
    /\ \E i \in DOMAIN b.games : b.games[i].accurate = "True"

\* C5: after correct(real) every game's accurate flag is None when the
\* real game has no winner, True when the real winner is the bracket's
\* winner, False when it is not (also when the bracket has no winner).
C5_CorrectFlags ==
    (out.op = "correct" \/ (out.op = "score" /\ out.err \in {"", "KeyError"})) =>
        \A i \in DOMAIN b.games : b.games[i].accurate = ExpectedFlag(i)

C5_Witness ==
    /\ out.op = "correct"
    /\ \E i \in DOMAIN b.games :
          t.games[i].winner = None /\ b.games[i].winner # None
          /\ b.games[i].accurate = "None"
    /\ \E i \in DOMAIN b.games : b.games[i].accurate = "False"
    /\ \E i \in DOMAIN b.games : b.games[i].accurate = "True"

C5_WitnessUndecided ==
    /\ out.op = "correct"
    /\ \E i \in DOMAIN b.games :
          b.games[i].winner = None /\ b.games[i].accurate = "False"

\* C6: for any source bracket, whatever its round labels and state of
\* play, empty_bracket returns a bracket whose first-round games hold the
\* source's opponents, whose other games hold none, and in which no game
\* has a winner, a loser or an accurate flag.
C6_CloneKeepsFirstRoundOnly ==
    out.op = "empty_bracket" =>
        /\ out.err = ""
        /\ DOMAIN b.games = DOMAIN t.games
        /\ \A i \in DOMAIN b.games :
              /\ b.games[i].opponents =
                    IF i >= FirstRound(Rounds(t)) THEN t.games[i].opponents ELSE <<>>
              /\ b.games[i].winner = None
              /\ b.games[i].loser = None
              /\ b.games[i].accurate = "None"

UnknownKey(arg, rounds) ==
    /\ arg.k = "dict"
    /\ \E key \in DOMAIN arg.dict : ListIndex(rounds, key) = ErrValue

\* C10: score with a mapping that holds a key which is no round label
\* raises NameError before correcting and scoring: no accurate flag and
\* not the stored points total change.
C10_UnknownKeyRejectedFirst ==
    [][ (out'.n = out.n + 1 /\ out'.op = "score" /\ UnknownKey(out'.arg, b.rounds)) =>
            /\ out'.err = "NameError"
            /\ out'.ret = NoSlot
            /\ b'.points = b.points
            /\ \A i \in DOMAIN b.games : b'.games[i].accurate = b.games[i].accurate ]_vars

C10_Witness ==
    /\ out.op = "score" /\ out.err = "NameError"
    /\ UnknownKey(out.arg, b.rounds)
    /\ sim.pc = "done"
    /\ b.points = NoSlot
    /\ \E i \in DOMAIN b.games :
          b.games[i].accurate = "None" /\ ExpectedFlag(i) = "True"

\* a mapping argument whose keys are all round labels and which leaves out
\* at least one round of the bracket
ValidPartial(arg, rounds) ==
    /\ arg.k = "dict"
    /\ ~UnknownKey(arg, rounds)
    /\ \E k \in 1..Len(rounds) : rounds[k] \notin DOMAIN arg.dict

RECURSIVE SumSupplied(_, _, _)
SumSupplied(T, d, S) ==
    IF S = {} THEN 0
    ELSE LET i == CHOOSE x \in S : TRUE
         IN  (IF RoundLabel(T, i) \in DOMAIN d THEN d[RoundLabel(T, i)] ELSE 0)
             + SumSupplied(T, d, S \ {i})

\* C11: score with a mapping whose keys are all round labels but which
\* leaves out some round raises nothing and returns the sum of the supplied
\* points over the accurate games of the supplied rounds only; accurate
\* games of a round left out add nothing.
C11_OmittedRoundNotCounted ==
    (out.op = "score" /\ ValidPartial(out.arg, b.rounds)) =>
        /\ out.err = ""
        /\ out.ret = SumSupplied(b, out.arg.dict, AccurateGames)

\* C12: a score call that repeats the call before it (same real bracket,
\* same pointsmap argument, nothing in between) returns the same total (or
\* raises the same error) and leaves every accurate flag as the first call
\* left it.
C12_ScoreTwiceSame ==
    [][ (out.op = "score" /\ out'.op = "score" /\ out'.n = out.n + 1
         /\ out'.arg = out.arg) =>
            /\ out'.again
            /\ out'.ret = out.ret
            /\ out'.err = out.err
            /\ b'.points = b.points
            /\ \A i \in DOMAIN b.games : b'.games[i].accurate = b.games[i].accurate ]_vars

C12_Witness ==
    /\ out.op = "score" /\ out.again /\ out.n = 2
    /\ out.arg.k = "none" /\ out.err = ""
    /\ out.ret > 0
    /\ sim.pc = "done"
    /\ \E i \in DOMAIN b.games : b.games[i].accurate = "False"

(***************************************************************************)
(* Specification of the season's run of svmexample.py: the real, fully     *)
(* played tournament of the default 6 rounds, a bracket cloned from it,    *)
(* simulated with a classifier that picks an opponent by index and misses  *)
(* the real winner at most MaxUpsets times, then scored with the default   *)
(* pointsmap.                                                              *)
(***************************************************************************)
MaxUpsets == 1

\* decide returns index 0 or 1; passing over the real winner of the game
\* counts as an upset (after an upset the real winner of a later game may
\* be out of the bracket: the classifier then picks index 0)
SimStepPick ==
    /\ sim.pc = "run"
    /\ sim.idx > 0
    /\ LET i == sim.idx - 1
           g == b.games[i]
       IN  /\ OpponentsOk(g)
           /\ \E r \in {Res("int", 0, 0), Res("int", 1, 0)} :
                 LET gone == ListIndex(g.opponents, t.games[i].winner) = ErrValue
                     hit == gone \/ Decided(g, r).g.winner = t.games[i].winner
                 IN  /\ hit \/ sim.odd < MaxUpsets
                     /\ gone => r.a = 0
                     /\ SimApply(i, g, r, hit)
    /\ UNCHANGED <<t, out, ix, dec, ex, w>>

\* s = b.score(t)
ScoreDefault ==
    /\ b # NoTournament
    /\ sim.pc # "run"
    /\ out.n < MaxScoreCalls
    /\ LET arg == PmArg("none", <<>>, <<>>, <<>>)
           s == score(b, t, arg)
       IN  /\ b' = s.trn
           /\ out' = [out EXCEPT !.op = "score", !.err = s.err, !.ret = s.ret,
                                 !.n = @ + 1, !.arg = arg,
                                 !.again = (out.op = "score" /\ out.arg = arg)]
    /\ UNCHANGED <<t, sim, ix, dec, ex, w>>

DefaultInit ==
    /\ t = RealTournament(DefaultRounds, RegionList(2), "/", "full",
                          Pow2(Len(DefaultRounds)) - 1)
    /\ b = NoTournament
    /\ sim = SimIdle
    /\ out = OutIdle
    /\ dec = DecIdle
    /\ ex = ExIdle
    /\ w = WIdle
    /\ ix = IxIdle

DefaultNext ==
    EmptyBracket \/ SimOnce \/ SimStepPick \/ SimReturn \/ ScoreDefault

SpecDefault == DefaultInit /\ [][DefaultNext]_vars

\* the games of the round at the given depth that the bracket picked as the
\* real tournament went
HitsAt(depth) ==
    {i \in DOMAIN b.games :
        log2(i + 1) = depth /\ b.games[i].winner = t.games[i].winner}

\* C13: on the default 6-round bracket score with no pointsmap gives 320,
\* 160, 80, 40, 20 and 10 points for each accurate game of the
\* championship, final four, elite 8, sweet 16, second and first round, so
\* no round is worth more than 320, and a bracket whose every winner is the
\* real one scores exactly 1920.
C13_DefaultPoints ==
    LET pts == <<320, 160, 80, 40, 20, 10>>
        worth(depth) == pts[depth + 1] * Cardinality(HitsAt(depth))
    IN  (out.op = "score" /\ Rounds(b) = 6) =>
            /\ out.err = ""
            /\ \A k \in 1..6 : b.pointsmap[DefaultRounds[k]] = pts[k]
            /\ out.ret = worth(0) + worth(1) + worth(2) + worth(3) + worth(4)
                         + worth(5)
            /\ \A depth \in 0..5 : worth(depth) <= 320
            /\ (\A i \in DOMAIN b.games : b.games[i].winner = t.games[i].winner)
                  => out.ret = 1920
            /\ out.ret <= 1920

C13_Witness ==
    /\ out.op = "score" /\ Rounds(b) = 6 /\ len(b) = 63
    /\ sim.pc = "done"
    /\ out.ret = 1920
    /\ \A i \in DOMAIN b.games : b.games[i].accurate = "True"

(***************************************************************************)
(* export.  A Squad carries a seed; a node of the output is                *)
(* [id, sid, seed, points] (the team name goes with sid), a node of the    *)
(* nested format has children as well.  TournamentGames made by the        *)
(* constructor and decided by simulate have no scores: points is None.     *)
(***************************************************************************)
seed(s) == ((s - 1) % 4) + 1

IsSquad(s) == s > 0

\* sorted(ops, key=lambda a: a.seed, reverse=True): by seed downwards,
\* squads of one seed in the order they had
RECURSIVE SortedBySeed(_)
SortedBySeed(ops) ==
    IF Len(ops) <= 1 THEN ops
    ELSE LET x == Head(ops)
             rest == SortedBySeed(Tail(ops))
             ahead == {k \in 1..Len(rest) : seed(rest[k]) > seed(x)}
             m == Cardinality(ahead)
         IN  SubSeq(rest, 1, m) \o <<x>> \o SubSeq(rest, m + 1, Len(rest))

\* format.lower(), on the format names tried
Formats == {"heap", "nested", "HEAP", "Nested", "xml", "flat"}

Lower(format) ==
    CASE format = "HEAP" -> "heap"
      [] format = "Nested" -> "nested"
      [] OTHER -> format

createNode(id_, squad, score_) ==
    [id |-> id_, sid |-> squad, seed |-> seed(squad), points |-> score_]

\* self[i] of a Python list: a negative index counts from the end
GameAt(T, i) == T.games[IF i < 0 THEN len(T) + i ELSE i]

\* the heap format: a node per game, then two nodes per game from
\* first_round_id = log2(len(self)) - 1 on
exportHeap(T) ==
    LET N == len(T)
        first_round_id == log2(N) - 1
        M == N - first_round_id
        ops(i) == SortedBySeed(GameAt(T, i).opponents)
        gameOf(k) == first_round_id + ((k - 1) \div 2)
        err == IF \E i \in 0..(N - 1) : ~IsSquad(T.games[i].winner)
               THEN "AttributeError"
               ELSE IF \E i \in first_round_id..(N - 1) :
                          \E k \in 1..Len(GameAt(T, i).opponents) :
                             ~IsSquad(GameAt(T, i).opponents[k])
               THEN "AttributeError"
               ELSE IF \E i \in first_round_id..(N - 1) :
                          Len(GameAt(T, i).opponents) < 2
               THEN "IndexError"
               ELSE ""
    IN  IF err # "" THEN [err |-> err, nodes |-> <<>>]
        ELSE [err |-> "",
              nodes |->
                 [k \in 1..N |-> createNode(k - 1, T.games[k - 1].winner, None)]
                 \o [k \in 1..(2 * M) |->
                       createNode(2 * gameOf(k) + 1 + ((k - 1) % 2),
                                  ops(gameOf(k))[((k - 1) % 2) + 1], None)]]

maketreeMut(T, n, prev) ==
    [err |-> "",
     node |-> [id |-> n, sid |-> T.games[0].winner, seed |-> 0,
               points |-> None, children |-> <<>>]]

\* _maketree(n, prev) of the nested format
RECURSIVE maketree(_, _, _)
maketree(T, n, prev) ==
    IF n >= len(T)
    THEN LET opps == T.games[prev].opponents
             ops == SortedBySeed(opps)
         IN  IF \E k \in 1..Len(opps) : ~IsSquad(opps[k])
             THEN [err |-> "AttributeError", node |-> <<>>]
             ELSE IF Len(ops) <= n % 2
             THEN [err |-> "IndexError", node |-> <<>>]
             ELSE [err |-> "",
                   node |-> [id |-> n, sid |-> ops[(n % 2) + 1],
                             seed |-> seed(ops[(n % 2) + 1]),
                             points |-> None, children |-> <<>>]]
    ELSE LET left == maketree(T, 2 * n + 1, n)
             right == maketree(T, 2 * n + 2, n)
             currentsquad == T.games[n].winner
         IN  IF left.err # "" THEN left
             ELSE IF right.err # "" THEN right
             ELSE IF ~IsSquad(currentsquad)
             THEN [err |-> "AttributeError", node |-> <<>>]
             ELSE [err |-> "",
                   node |-> [id |-> n, sid |-> currentsquad,
                             seed |-> seed(currentsquad), points |-> None,
                             children |-> <<left.node, right.node>>]]

exportMut(T, format) ==
    [err |-> "", nodes |-> <<>>,
     trn |-> [T EXCEPT !.games =
                [i \in DOMAIN T.games |->
                   [T.games[i] EXCEPT !.opponents = SortedBySeed(@)]]]]

\* export(format): the output's nodes, the error raised, and the bracket as
\* the call leaves it
export(T, format) ==
    LET f == Lower(format)
    IN  IF f \notin {"heap", "nested"}
        THEN [err |-> "NotImplementedError", nodes |-> <<>>, trn |-> T]
        ELSE IF f = "heap"
        THEN [err |-> exportHeap(T).err, nodes |-> exportHeap(T).nodes, trn |-> T]
        ELSE [err |-> maketree(T, 0, NoSlot).err,
              nodes |-> maketree(T, 0, NoSlot).node, trn |-> T]

MaxExports == 1

\* b.export(format)
Export ==
    /\ b # NoTournament
    /\ sim.pc # "run"
    /\ ex.n < MaxExports
    /\ \E format \in Formats :
          LET e == export(b, format)
          IN  /\ b' = e.trn
              /\ ex' = [format |-> format, err |-> e.err, nodes |-> e.nodes,
                        n |-> ex.n + 1]
    /\ UNCHANGED <<t, sim, out, ix, dec, w>>

(***************************************************************************)
(* Specification of export: a bracket cloned from a real tournament       *)
(* (played if fully seeded), exported as cloned or after one simulate call *)
(* with an index decider.                                                  *)
(***************************************************************************)
ExportInit ==
    /\ \E R \in 1..MaxScoreRounds, seeding \in Seedings :
          t = RealTournament(StdRounds(R), RegionList(2), "/", seeding,
                             IF seeding = "full" THEN Pow2(R) - 1 ELSE 0)
    /\ b = NoTournament
    /\ sim = SimIdle
    /\ out = OutIdle
    /\ dec = DecIdle
    /\ ex = ExIdle
    /\ w = WIdle
    /\ ix = IxIdle

\* the simulate call of a bracket that has not been exported yet
SimUnexported == SimOnce /\ ex.n = 0

ExportNext ==
    EmptyBracket \/ SimUnexported \/ SimStepIndex \/ SimReturn \/ Export

SpecExport == ExportInit /\ [][ExportNext]_vars

\* C14: for a fully decided bracket of R rounds export('heap') gives
\* (2^R - 1) + 2 * 2^(R-1) nodes: the node with id i for every game i, then
\* for the first-round games only (2^(R-1) - 1 <= i <= 2^R - 2) the two
\* opponent nodes with ids 2i + 1 and 2i + 2.
C14_HeapNodeCount ==
    (ex.n > 0 /\ Lower(ex.format) = "heap" /\ sim.pc = "done") =>
        LET N == len(b)
            firstround == FirstRoundGames(b)
        IN  /\ ex.err = ""
            /\ Len(ex.nodes) = N + 2 * Pow2(Rounds(b) - 1)
            /\ \A i \in 0..(N - 1) : ex.nodes[i + 1].id = i
            /\ \A k \in (N + 1)..Len(ex.nodes) :
                  \E i \in firstround : ex.nodes[k].id \in {2 * i + 1, 2 * i + 2}
            /\ \A i \in firstround : \A id_ \in {2 * i + 1, 2 * i + 2} :
                  Cardinality({k \in (N + 1)..Len(ex.nodes) : ex.nodes[k].id = id_}) = 1

\* the subtree at node, which is to be the node of id n
RECURSIVE TreeOk(_, _)
TreeOk(node, n) ==
    /\ node.id = n
    /\ IF n < len(b)
       THEN /\ node.sid = b.games[n].winner
            /\ Len(node.children) = 2
            /\ TreeOk(node.children[1], 2 * n + 1)
            /\ TreeOk(node.children[2], 2 * n + 2)
            /\ n >= FirstRound(Rounds(b)) =>
                  /\ node.children[1].sid # node.children[2].sid
                  /\ {node.children[1].sid, node.children[2].sid}
                        = {b.games[n].opponents[1], b.games[n].opponents[2]}
       ELSE Len(node.children) = 0

\* C15: for a fully decided bracket export('nested') gives one tree, rooted
\* at the node of game 0's winner, in which the node of id n < 2^R - 1
\* carries the winner of game n and has exactly the two children of ids
\* 2n + 1 and 2n + 2, and the nodes of id >= 2^R - 1 are childless leaves,
\* the two under a first-round game being its two distinct opponents.
C15_NestedTree ==
    (ex.n > 0 /\ Lower(ex.format) = "nested" /\ sim.pc = "done") =>
        /\ ex.err = ""
        /\ TreeOk(ex.nodes, 0)

C15_Witness ==
    /\ ex.n > 0 /\ ex.format = "nested" /\ sim.pc = "done" /\ ex.err = ""
    /\ len(b) = 3
    /\ ex.nodes.sid = b.games[0].winner
    /\ ex.nodes.children[1].children[1].sid = 1
    /\ ex.nodes.children[1].children[2].sid = 2

\* C16 as stated: every format name other than 'heap' and 'nested' makes
\* export raise NotImplementedError.
C16_OtherNameRejected ==
    (ex.n > 0 /\ ex.format \notin {"heap", "nested"}) =>
        ex.err = "NotImplementedError"

\* C16 as amended: export lower-cases the format name first; a name whose
\* lower-case form is neither 'heap' nor 'nested' raises
\* NotImplementedError with no output produced, a name such as 'HEAP' is
\* served as 'heap'; and no export call, whatever the format and whether it
\* raises or not, changes the bracket or any of its games.
C16_UnknownFormatRejected ==
    [][ (ex'.n = ex.n + 1) =>
            /\ b' = b
            /\ Lower(ex'.format) \notin {"heap", "nested"} =>
                  (ex'.err = "NotImplementedError" /\ ex'.nodes = <<>>)
            /\ Lower(ex'.format) \in {"heap", "nested"} =>
                  ex'.err # "NotImplementedError" ]_vars

C16_Witness ==
    /\ ex.n > 0 /\ ex.format = "xml" /\ ex.err = "NotImplementedError"
    /\ ex.nodes = <<>>
    /\ sim.pc = "done"
    /\ len(b) = 3

(***************************************************************************)
(* Workers.  Each worker clones the one real tournament and simulates its  *)
(* clone, the workers' steps interleaved.  Opponents lists are objects: a  *)
(* game holds a reference into w.lists, the store of the lists' contents.  *)
(* The list of the real tournament's game i has reference i; the lists of  *)
(* worker k's clone are the N references from k * N on.                    *)
(***************************************************************************)
MaxWorkers == 2

MaxWorkerRounds == 2

Workers == 1..MaxWorkers

\* the decision functions of the workers: always index 0, always index 1,
\* index 0 on even and 1 on odd games
Picks == {"zero", "one", "alt"}

PickIndex(pick, i) ==
    CASE pick = "zero" -> 0
      [] pick = "one"  -> 1
      [] OTHER         -> i % 2

\* the list a TournamentGame of a new Tournament starts with
NewList(k, i, N) == k * N + i

CloneListMut(k, i, N) == i

\* [t for t in self[i].opponents]: a new list
CloneList(k, i, N) == k * N + i

WorkerIdle == [pc |-> "new", idx |-> 0, pick |-> "zero", games |-> <<>>]

\* b = t.empty_bracket() of worker k
WClone(k) ==
    /\ w.wk[k].pc = "new"
    /\ LET N == len(t)
           fr_start == index(t, "1st", <<>>, 0)
           ref(i) == IF i >= fr_start THEN CloneList(k, i, N) ELSE NewList(k, i, N)
           content(i) == IF i >= fr_start THEN w.lists[i] ELSE <<>>
           refs == {ref(i) : i \in 0..(N - 1)}
       IN  IF fr_start < 0
           THEN w' = [w EXCEPT !.wk[k].pc = "error"]
           ELSE w' = [lists |->
                         [id \in (DOMAIN w.lists) \cup refs |->
                            IF id \in refs
                            THEN content(CHOOSE i \in 0..(N - 1) : ref(i) = id)
                            ELSE w.lists[id]],
                      wk |-> [w.wk EXCEPT ![k] =
                                [@ EXCEPT !.pc = "ready", !.idx = N,
                                   !.games = [i \in 0..(N - 1) |->
                                                [ref |-> ref(i), winner |-> None,
                                                 loser |-> None]]]]]
    /\ UNCHANGED <<t, b, sim, out, ix, dec, ex>>

\* b.simulate(decide) of worker k is called
WStart(k) ==
    /\ w.wk[k].pc = "ready"
    /\ w' = [w EXCEPT !.wk[k].pc = "run", !.wk[k].idx = Cardinality(DOMAIN w.wk[k].games)]
    /\ UNCHANGED <<t, b, sim, out, ix, dec, ex>>

\* one pass of the loop of worker k's simulate
WStep(k) ==
    /\ w.wk[k].pc = "run"
    /\ w.wk[k].idx > 0
    /\ LET me == w.wk[k]
           i == me.idx - 1
           g == [opponents |-> w.lists[me.games[i].ref],
                 winner |-> me.games[i].winner, loser |-> me.games[i].loser,
                 accurate |-> "None"]
           d == Decided(g, Res("int", PickIndex(me.pick, i), 0))
           nextroundgame == next(i)
       IN  IF ~OpponentsOk(g) \/ d.err # ""
           THEN w' = [w EXCEPT !.wk[k].pc = "error", !.wk[k].idx = i]
           ELSE w' = [lists |->
                         IF nextroundgame = NoSlot THEN w.lists
                         ELSE [w.lists EXCEPT ![me.games[nextroundgame].ref] =
                                  Append(@, d.g.winner)],
                      wk |-> [w.wk EXCEPT ![k] =
                                [@ EXCEPT !.idx = i,
                                          !.games[i].winner = d.g.winner,
                                          !.games[i].loser = d.g.loser]]]
    /\ UNCHANGED <<t, b, sim, out, ix, dec, ex>>

\* worker k's iterator raises StopIteration
WReturn(k) ==
    /\ w.wk[k].pc = "run"
    /\ w.wk[k].idx = 0
    /\ w' = [w EXCEPT !.wk[k].pc = "done"]
    /\ UNCHANGED <<t, b, sim, out, ix, dec, ex>>

WorkersInit ==
    /\ \E R \in 1..MaxWorkerRounds, played \in {0, Pow2(MaxWorkerRounds) - 1} :
          \E rounds \in {StdRounds(R), OrdinalRounds(R)} :
             t = RealTournament(rounds, RegionList(2), "/", "full",
                                IF played = 0 THEN 0 ELSE Pow2(R) - 1)
    /\ b = NoTournament
    /\ sim = SimIdle
    /\ out = OutIdle
    /\ dec = DecIdle
    /\ ex = ExIdle
    /\ ix = IxIdle
    /\ \E picks \in [Workers -> Picks] :
          w = [lists |-> [i \in DOMAIN t.games |-> t.games[i].opponents],
               wk |-> [k \in Workers |-> [WorkerIdle EXCEPT !.pick = picks[k]]]]

WorkersNext ==
    \E k \in Workers : WClone(k) \/ WStart(k) \/ WStep(k) \/ WReturn(k)

SpecWorkers == WorkersInit /\ [][WorkersNext]_vars

\* worker k's bracket: its games with the contents of their lists
WorkerGames(k) ==
    [i \in DOMAIN w.wk[k].games |->
        [opponents |-> w.lists[w.wk[k].games[i].ref],
         winner |-> w.wk[k].games[i].winner,
         loser |-> w.wk[k].games[i].loser,
         accurate |-> "None"]]

\* simulate with the given decision function run alone on bracket B, from
\* iterator position cur down to position stop
RECURSIVE Solo(_, _, _, _)
Solo(B, cur, stop, pick) ==
    IF cur <= stop THEN [games |-> B.games, err |-> ""]
    ELSE LET i == cur - 1
             g == B.games[i]
             d == Decided(g, Res("int", PickIndex(pick, i), 0))
             nextroundgame == next(i)
         IN  IF ~OpponentsOk(g) \/ d.err # ""
             THEN [games |-> B.games, err |-> "IndexError"]
             ELSE Solo([B EXCEPT !.games =
                          [j \in DOMAIN B.games |->
                             IF j = i THEN d.g
                             ELSE IF j = nextroundgame
                             THEN [B.games[j] EXCEPT !.opponents = Append(@, d.g.winner)]
                             ELSE B.games[j]]],
                       i, stop, pick)

\* C17: whatever the interleaving of the workers' steps, the real
\* tournament's opponents lists stay as they were, and every worker's
\* bracket is at every moment what the worker's simulate run alone on a
\* fresh clone would have made of it by then (so no worker's step reaches
\* another worker's bracket, and the final winners are those of the run
\* alone).
C17_WorkersIndependent ==
    (w # WIdle) =>
        /\ \A i \in DOMAIN t.games : w.lists[i] = t.games[i].opponents
        /\ \A k \in Workers :
              w.wk[k].pc \in {"ready", "run", "done", "error"}
              /\ w.wk[k].games # <<>> =>
                 LET alone == Solo(empty_bracket(t).trn, len(t), w.wk[k].idx,
                                   w.wk[k].pick)
                 IN  /\ WorkerGames(k) = alone.games
                     /\ (w.wk[k].pc = "error") = (alone.err # "")

C17_Witness ==
    /\ w # WIdle
    /\ len(t) = 3
    /\ w.wk[1].pc = "done" /\ w.wk[2].pc = "done"
    /\ w.wk[1].pick = "zero" /\ w.wk[2].pick = "one"
    /\ w.wk[1].games[0].winner # w.wk[2].games[0].winner
    /\ w.lists[w.wk[1].games[0].ref] # w.lists[w.wk[2].games[0].ref]

(***************************************************************************)
(* Specification of the type dispatch of simulate: as SpecSim, on brackets *)
(* of at most MaxDecideRounds rounds, with the value decide returned kept  *)
(* in dec.                                                                 *)
(***************************************************************************)
MaxDecideRounds == 2

\* decide returns index 0, or at most MaxOdd times anything else
SimStepShape == SimPass(PlainResults, TRUE, TRUE)

DecideInit ==
    /\ \E R \in 1..MaxDecideRounds, seeding \in Seedings :
          t = RealTournament(StdRounds(R), RegionList(2), "/", seeding,
                             IF seeding = "full" THEN Pow2(R) - 1 ELSE 0)
    /\ b = NoTournament
    /\ sim = SimIdle
    /\ out = OutIdle
    /\ dec = DecIdle
    /\ ex = ExIdle
    /\ w = WIdle
    /\ ix = IxIdle

DecideNext == EmptyBracket \/ SimStart \/ SimStepShape \/ SimReturn

SpecDecide == DecideInit /\ [][DecideNext]_vars

\* decide has been called in the running (or ended) simulate call, last on
\* game LastGame, and dec is what it returned
Decided1 == sim.calls # <<>> /\ dec.t # ""

LastGame == sim.calls[Len(sim.calls)]

\* C18: an integer r in {0, 1} from decide makes simulate record winner =
\* opponents[r] and loser = opponents[1 - r]; a single squad that is one of
\* the game's two opponents is recorded as winner, the other opponent as
\* loser.  Neither raises.
C18_IndexAndSquadRecorded ==
    Decided1 =>
        LET g == b.games[LastGame]
            o == g.opponents
        IN  /\ (dec.t = "int" /\ dec.a \in {0, 1}) =>
                  /\ sim.pc # "error"
                  /\ g.winner = o[dec.a + 1]
                  /\ g.loser = o[2 - dec.a]
            /\ (dec.t = "squad" /\ dec.a \in {o[1], o[2]}) =>
                  /\ sim.pc # "error"
                  /\ g.winner = dec.a
                  /\ g.loser = IF dec.a = o[1] THEN o[2] ELSE o[1]

C18_Witness ==
    /\ Decided1
    /\ sim.pc = "done"
    /\ len(b) = 3
    /\ dec.t = "squad"
    /\ dec.a = b.games[0].opponents[2]
    /\ b.games[0].winner = dec.a
    /\ b.games[0].loser = b.games[0].opponents[1]
    /\ b.games[2].winner = b.games[2].opponents[2]
    /\ b.games[2].loser = b.games[2].opponents[1]

\* C19: a game-like object from decide is used as the decided game: with
\* its winner and loser set they become the game's, with either unset
\* simulate raises; the step never completes with the game undecided.
C19_GameResultUsed ==
    (Decided1 /\ dec.t = "game") =>
        IF dec.a = None \/ dec.b = None
        THEN sim.pc = "error"
        ELSE /\ sim.pc # "error"
             /\ b.games[LastGame].winner = dec.a
             /\ b.games[LastGame].loser = dec.b

\* C20: a numeric sequence of length >= 1 from decide, list or array, whose
\* first element is i in {0, 1} makes simulate record winner = opponents[i]
\* and loser = opponents[1 - i].
C20_SequenceHeadIsIndex ==
    (Decided1 /\ dec.t \in {"list", "ndarray"} /\ dec.a \in {0, 1}) =>
        /\ sim.pc # "error"
        /\ b.games[LastGame].winner = b.games[LastGame].opponents[dec.a + 1]
        /\ b.games[LastGame].loser = b.games[LastGame].opponents[2 - dec.a]

\* C21: the bracket empty_bracket returns has the round labels, region
\* labels, delimiter and number of games of its source, and lookup(n) gives
\* the same coordinate on both for every index n.
C21_CloneSameShape ==
    (out.op = "empty_bracket" /\ out.err = "") =>
        /\ b.rounds = t.rounds
        /\ b.regions = t.regions
        /\ b.delim = t.delim
        /\ len(b) = len(t)
        /\ \A n \in DOMAIN t.games : lookup(b, n) = lookup(t, n)


(***************************************************************************)
(* Specification of a bracket's whole life: a real tournament of R rounds  *)
(* under any of the round-label lists, unplayed or played, cloned, then    *)
(* simulated once with an index decider, corrected, scored and exported.   *)
(***************************************************************************)
MaxLifeRounds == 2

LifeInit ==
    /\ \E R \in 1..MaxLifeRounds, e \in 1..2 :
          \E rounds \in RoundLists(R), played \in {0, Pow2(R) - 1} :
             t = RealTournament(rounds, RegionList(e), "/", "full", played)
    /\ b = NoTournament
    /\ sim = SimIdle
    /\ out = OutIdle
    /\ dec = DecIdle
    /\ ex = ExIdle
    /\ w = WIdle
    /\ ix = IxIdle

LifeNext ==
    \/ EmptyBracket
    \/ SimUnexported
    \/ SimStepIndex
    \/ SimReturn
    \/ Correct
    \/ ScoreDefault
    \/ Export

SpecLife == LifeInit /\ [][LifeNext]_vars

\* the games of the deepest row of the tree: those without children
Leaves(T) == {i \in DOMAIN T.games : 2 * i + 1 >= len(T)}

Layout(T) ==
    /\ DOMAIN T.games = 0..(Pow2(Rounds(T)) - 2)
    /\ len(T) = Pow2(Rounds(T)) - 1
    /\ Leaves(T) = (Pow2(Rounds(T) - 1) - 1)..(Pow2(Rounds(T)) - 2)
    /\ \A i \in DOMAIN T.games :
          (lookup(T, i).round = T.rounds[Rounds(T)]) <=> (i \in Leaves(T))

\* C22: a bracket of R round labels holds exactly 2^R - 1 games, its
\* first-round games are the indices 2^(R-1)-1 .. 2^R-2, and no step of
\* simulate, correct, score, export or empty_bracket changes the number of
\* games of the source or of the clone.
C22_GameCountFixed ==
    /\ [](Layout(t) /\ (b # NoTournament => Layout(b)))
    /\ [][/\ len(t') = len(t)
          /\ b # NoTournament => len(b') = len(b)
          /\ (b = NoTournament /\ b' # NoTournament) => len(b') = len(t)]_vars

C22_Witness ==
    /\ Rounds(b) = 2
    /\ len(b) = 3
    /\ sim.pc = "done"
    /\ out.op = "score"
    /\ out.n = 2
    /\ ex.n = 1
    /\ ex.err = ""


\* the children of game p that have a winner
WonChildren(T, p) ==
    {c \in {2 * p + 1, 2 * p + 2} : c \in DOMAIN T.games /\ T.games[c].winner # None}

\* C23: in every state of the first simulate run on a bracket from
\* empty_bracket, the opponents of each game above the first round are
\* the winners of its children that have one, each appended once, and no
\* game holds more than 2 opponents.
C23_WinnerAppendedOnce ==
    (b # NoTournament /\ sim.run = 1) =>
        /\ \A p \in DOMAIN b.games \ Leaves(b) :
              /\ Len(b.games[p].opponents) = Cardinality(WonChildren(b, p))
              /\ \A c \in WonChildren(b, p) :
                    \E k \in DOMAIN b.games[p].opponents :
                       b.games[p].opponents[k] = b.games[c].winner
        /\ \A i \in DOMAIN b.games : Len(b.games[i].opponents) <= 2


\* C24: simulate calls decide on the games in strictly decreasing index
\* order from 2^R-2, each at most once and, when it returns, each exactly
\* once with the root last; in the first run on a clone a game has a
\* winner only when both of its children have one.
C24_DecreasingOrder ==
    (b # NoTournament /\ sim.run >= 1) =>
        /\ \E lo \in {sim.idx, sim.idx + 1} :
              sim.calls = Descending(len(b) - 1, lo)
        /\ (sim.pc \in {"run", "done"}) =>
              sim.calls = Descending(len(b) - 1, sim.idx)
        /\ sim.pc = "done" =>
              /\ sim.calls = Descending(Pow2(Rounds(b)) - 2, 0)
              /\ sim.calls[Len(sim.calls)] = 0
        /\ sim.run = 1 =>
              \A i \in DOMAIN b.games \ Leaves(b) :
                 b.games[i].winner # None =>
                    /\ b.games[2 * i + 1].winner # None
                    /\ b.games[2 * i + 2].winner # None
                    /\ \E k \in DOMAIN sim.calls : sim.calls[k] = i

C24_Witness ==
    /\ sim.run = 1 /\ sim.pc = "done" /\ ~sim.ints
    /\ sim.calls = <<6, 5, 4, 3, 2, 1, 0>>
    /\ \A i \in 0..6 : b.games[i].winner # None


\* the points per round label an accepted pointsmap argument supplies
Supplied(arg, rounds) ==
    IF arg.k = "list" THEN ZipMap(rounds, arg.list)
    ELSE IF arg.k = "dict" /\ ~UnknownKey(arg, rounds) THEN arg.dict
    ELSE <<>>

RECURSIVE SumOverride(_, _, _)
SumOverride(T, d, S) ==
    IF S = {} THEN 0
    ELSE LET i == CHOOSE x \in S : TRUE
         IN  (IF RoundLabel(T, i) \in DOMAIN d THEN d[RoundLabel(T, i)]
              ELSE T.pointsmap[RoundLabel(T, i)])
             + SumOverride(T, d, S \ {i})

\* C25: a score call without pointsmap argument that follows a score call
\* with an accepted list or mapping finds the override's points on the
\* bracket for every round the override supplied, and its total awards
\* those points to the accurate games of these rounds.
C25_OverrideRetained ==
    [][ (/\ out.op = "score"
         /\ out.arg.k \in {"list", "dict"}
         /\ ~UnknownKey(out.arg, b.rounds)
         /\ out'.op = "score"
         /\ out'.n = out.n + 1
         /\ out'.arg.k = "none") =>
            LET d == Supplied(out.arg, b.rounds)
                hits == {i \in DOMAIN b'.games : b'.games[i].accurate = "True"}
            IN  /\ \A l \in DOMAIN d :
                      l \in DOMAIN b'.pointsmap /\ b'.pointsmap[l] = d[l]
                /\ out'.err \in {"", "KeyError"}
                /\ out'.err = "" =>
                      /\ out'.ret = SumOverride(b', d, hits)
                      /\ b'.points = out'.ret ]_vars

C25_Witness ==
    /\ out.op = "score" /\ out.n = 2 /\ ~out.again
    /\ out.arg.k = "none" /\ out.err = ""
    /\ sim.pc = "done"
    /\ b.pointsmap # ZipMap(b.rounds, roundpoints)
    /\ \E i \in DOMAIN b.games :
          /\ b.games[i].accurate = "True"
          /\ b.pointsmap[RoundLabel(b, i)] # ZipMap(b.rounds, roundpoints)[RoundLabel(b, i)]
    /\ out.ret > 0
    /\ out.ret # SumPoints([b EXCEPT !.pointsmap = ZipMap(b.rounds, roundpoints)],
                           AccurateGames)


\* C28: when score rejects a mapping for a key that is no round label, the
\* stored pointsmap is as before the call, in whatever order the keys were
\* examined (stated for the first call on the bracket, whose pointsmap
\* before the call is the built-in default).
C28_RejectedMappingNotApplied ==
    (out.op = "score" /\ out.n = 1 /\ UnknownKey(out.arg, b.rounds)) =>
        /\ out.err = "NameError"
        /\ b.pointsmap = ZipMap(b.rounds, roundpoints)


\* C26: when the first simulate run on a clone returns, the opponents of
\* every game i above the first round are the winner of game 2i+2 followed
\* by the winner of game 2i+1; when decide returned index 0 at every game,
\* the champion is the first opponent of game 2^R-2.
C26_OpponentsOrder ==
    (sim.run = 1 /\ sim.pc = "done") =>
        /\ \A i \in DOMAIN b.games \ Leaves(b) :
              b.games[i].opponents =
                 <<b.games[2 * i + 2].winner, b.games[2 * i + 1].winner>>
        /\ (sim.odd = 0 /\ FullySeeded(t)) =>
              b.games[0].winner = b.games[Pow2(Rounds(b)) - 2].opponents[1]

C26_Witness ==
    /\ sim.run = 1 /\ sim.pc = "done" /\ sim.odd = 0
    /\ len(b) = 7
    /\ b.games[0].opponents = <<7, 3>>
    /\ b.games[2].opponents = <<7, 5>>
    /\ b.games[0].winner = 7
    /\ b.games[6].opponents = <<7, 8>>


\* C27: when simulate has returned without error, every game's winner is
\* one of its two opponents, its loser is the other one, and the two
\* differ, whichever shapes decide returned.
C27_WinnerAmongOpponents ==
    (b # NoTournament /\ sim.run = 1 /\ sim.pc = "done") =>
        \A i \in DOMAIN b.games :
           LET g == b.games[i]
           IN  /\ Len(g.opponents) = 2
               /\ g.winner # g.loser
               /\ {g.winner, g.loser} = {g.opponents[1], g.opponents[2]}


\* the squads and points carried by the nodes with the given id in a
\* nested tree
RECURSIVE NestedAt(_, _)
NestedAt(node, id) ==
    IF node.id = id THEN {<<node.sid, node.points>>}
    ELSE UNION {NestedAt(node.children[k], id) : k \in DOMAIN node.children}

\* the squads and points carried by the opponent nodes with the given id
\* in a heap list of a bracket of N games
HeapAt(nodes, N, id) ==
    {<<nodes[k].sid, nodes[k].points>> : k \in {j \in DOMAIN nodes : j > N /\ nodes[j].id = id}}

\* C29: for every first-round game i of a decided bracket and x in {1, 2},
\* the opponent node with id 2i+x of the heap export carries the same
\* squad, with the same points (the games of a simulated bracket carry no
\* scores), as the leaf with id 2i+x of the nested export.
C29_HeapAndNestedAgree ==
    (sim.pc = "done" /\ ex.n > 0 /\ ex.err = "" /\ Lower(ex.format) = "heap") =>
        LET tree == maketree(b, 0, NoSlot)
        IN  /\ tree.err = ""
            /\ \A i \in Leaves(b), x \in {1, 2} :
                  /\ HeapAt(ex.nodes, len(b), 2 * i + x) # {}
                  /\ HeapAt(ex.nodes, len(b), 2 * i + x) = NestedAt(tree.node, 2 * i + x)


(***************************************************************************)
(* ExtractedTournament of ncaalib: a copy of a real tournament's games     *)
(* with the real winners as key, cleared and simulated again by each test  *)
(* call.  An instance is [games, key, scoremap].                           *)
(***************************************************************************)
MaxExtractRounds == 2

MaxTests == 2

\* the decision functions handed to test: the index pickers, and one that
\* raises
Deciders == Picks \cup {"raise"}

\* ExtractedTournament(tournament): ExtractedSquad(game.winner) reads the
\* winner's id, which fails on a game that was not played
ExtractedTournament(T) ==
    IF \E i \in DOMAIN T.games :
          \/ ~IsSquad(T.games[i].winner)
          \/ ~IsSquad(T.games[i].loser)
          \/ \E k \in DOMAIN T.games[i].opponents : ~IsSquad(T.games[i].opponents[k])
    THEN [err |-> "AttributeError", trn |-> NoTournament]
    ELSE [err |-> "",
          trn |-> [games |-> [i \in DOMAIN T.games |->
                                [opponents |-> T.games[i].opponents,
                                 winner |-> T.games[i].winner,
                                 loser |-> T.games[i].loser]],
                   key |-> [i \in DOMAIN T.games |-> T.games[i].winner],
                   scoremap |-> roundpoints]]

clear_bracket(X) ==
    LET sr_id == len(X) \div 2
    IN  [X EXCEPT !.games =
            [i \in DOMAIN X.games |->
                [opponents |-> IF i < sr_id THEN <<>> ELSE X.games[i].opponents,
                 winner |-> None,
                 loser |-> None]]]

\* the names bound in the module of ExtractedTournament by
\* `from ncaa import *` that matter here: the classes defined at the top
\* level of ncaa; TournamentIterator is defined inside Tournament.__iter__
ModuleNames == {"Game", "Squad", "TournamentGame", "Tournament", "log2"}

\* ExtractedTournament.__iter__: return TournamentIterator(self)
ExtractedIter(X) ==
    IF "TournamentIterator" \in ModuleNames
    THEN [err |-> "", index |-> len(X)]
    ELSE [err |-> "NameError", index |-> 0]

\* ExtractedTournament.score
RECURSIVE ExtractedScore(_, _)
ExtractedScore(X, i) ==
    IF i >= len(X) THEN [err |-> "", ret |-> 0]
    ELSE IF X.games[i].winner = None THEN [err |-> "AttributeError", ret |-> NoSlot]
    ELSE LET rest == ExtractedScore(X, i + 1)
             round_ == log2(i + 1)
         IN  IF X.key[i] # X.games[i].winner THEN rest
             ELSE IF round_ >= Len(X.scoremap)
             THEN [err |-> "IndexError", ret |-> NoSlot]
             ELSE IF rest.err # "" THEN rest
             ELSE [err |-> "", ret |-> X.scoremap[round_ + 1] + rest.ret]

\* the loop of test from the game below index_ on
RECURSIVE TestLoop(_, _, _)
TestLoop(X, index_, decider) ==
    IF index_ = 0
    THEN LET s == ExtractedScore(X, 0)
         IN  [trn |-> X, err |-> s.err, ret |-> s.ret]
    ELSE LET i == index_ - 1
             g == X.games[i]
             r == PickIndex(decider, i)
             next_id == ((i + 1) \div 2) - 1
             won == [g EXCEPT !.winner = g.opponents[r + 1],
                              !.loser = g.opponents[((r + 1) % 2) + 1]]
         IN  IF Len(g.opponents) # 2
             THEN [trn |-> X, err |-> "IndexError", ret |-> NoSlot]
             ELSE IF decider = "raise"
             THEN [trn |-> X, err |-> "DeciderError", ret |-> NoSlot]
             ELSE TestLoop([X EXCEPT !.games =
                              [j \in DOMAIN X.games |->
                                 IF j = i THEN won
                                 ELSE IF j = next_id
                                 THEN [X.games[j] EXCEPT !.opponents =
                                          Append(@, won.winner)]
                                 ELSE X.games[j]]],
                           i, decider)

\* ExtractedTournament.test(decider)
test(X, decider) ==
    LET c == clear_bracket(X)
        it == ExtractedIter(c)
    IN  IF it.err # ""
        THEN [trn |-> c, err |-> it.err, ret |-> NoSlot]
        ELSE TestLoop(c, it.index, decider)

\* b = ExtractedTournament(t)
Extract ==
    /\ b = NoTournament
    /\ out.op = ""
    /\ LET x == ExtractedTournament(t)
       IN  /\ b' = x.trn
           /\ out' = [out EXCEPT !.op = "extract", !.err = x.err]
    /\ UNCHANGED <<t, sim, ix, dec, ex, w>>

\* b.test(decider)
Test ==
    /\ b # NoTournament
    /\ out.n < MaxTests
    /\ \E decider \in Deciders :
          LET r == test(b, decider)
          IN  /\ b' = r.trn
              /\ out' = [out EXCEPT !.op = "test", !.err = r.err, !.ret = r.ret,
                                    !.n = @ + 1,
                                    !.arg = PmArg(decider, <<>>, <<>>, <<>>)]
    /\ UNCHANGED <<t, sim, ix, dec, ex, w>>

ExtractInit ==
    /\ \E R \in 1..MaxExtractRounds, e \in 1..2 :
          \E rounds \in RoundLists(R), played \in 0..(Pow2(R) - 1) :
             t = RealTournament(rounds, RegionList(e), "/", "full", played)
    /\ b = NoTournament
    /\ sim = SimIdle
    /\ out = OutIdle
    /\ dec = DecIdle
    /\ ex = ExIdle
    /\ w = WIdle
    /\ ix = IxIdle

ExtractNext == Extract \/ Test

SpecExtract == ExtractInit /\ [][ExtractNext]_vars

\* C30: a test call with an index decider, after any earlier test calls on
\* the instance (aborted ones included), runs to completion, leaves every
\* game with exactly 2 opponents, and returns the score the same decider
\* gets on a freshly extracted instance.
C30_TestRepeatable ==
    (out.op = "test" /\ out.arg.k \in Picks) =>
        /\ out.err = ""
        /\ out.ret # NoSlot
        /\ \A i \in DOMAIN b.games : Len(b.games[i].opponents) = 2
        /\ out.ret = test(ExtractedTournament(t).trn, out.arg.k).ret

=============================================================================
